---- MODULE Spec2Model ----
(***************************************************************************)
(* Union disambiguation of cattrs (src/src/cattrs/disambiguators.py).      *)
(*                                                                         *)
(* create_uniq_field_dis_func builds, from an ordered group of attrs       *)
(* classes, an insertion-ordered table "unique field name -> class" and a  *)
(* fallback; create_type_name_field_dis_func builds a table "class name -> *)
(* class" with the first class as fallback.  Each returns a closure        *)
(* dis_func that maps an input to a class or raises ValueError.            *)
(***************************************************************************)
EXTENDS Integers, Sequences, FiniteSets, TLC

VARIABLES
    kind,             \* which builder is called: "uniq" or "type_name"
    classes,          \* *classes, the ordered group given to the builder
    type_name_key,    \* keyword argument of create_type_name_field_dis_func
    pc,               \* builder position: "start", "loop", "built", "raised"
    cls_and_attrs,    \* the list of (cl, attribute names), sorted at line 29
    i,                \* index of the enumerate() loop (1-based)
    uniq_attrs_dict,  \* the OrderedDict, as a sequence of [k, v] items
    names_to_cl,      \* the dict of the type-name builder
    fallback,         \* closure variable fallback (None until assigned)
    error,            \* the exception the builder raised, or NoError
    calls             \* the dis_func calls in flight, one per caller

vars == << kind, classes, type_name_key, pc, cls_and_attrs, i,
           uniq_attrs_dict, names_to_cl, fallback, error, calls >>

-----------------------------------------------------------------------------
(* Bounds and universes of the inputs.                                     *)

MaxClasses == 3

FieldNames == {"p", "c", "g"}

ClassNames == <<"A", "B", "C", "D", "E">>

TagNames == {"A", "B", "C"}

TypeNameKeys == {"type", "_type"}

Callers == {"t1", "t2"}

None == 0

-----------------------------------------------------------------------------
(* Values of the input mappings: a string, or an unhashable value (a list) *)

Str(s) == [t |-> "str", v |-> s]

ListVal == [t |-> "list", v |-> ""]

Hashable(x) == x.t # "list"

TagValues == {Str(s) : s \in TagNames \cup {"Z"}} \cup {ListVal}

Mappings(Keys, Vals) == UNION {[K -> Vals] : K \in SUBSET Keys}

\* An input of dis_func: a Mapping with its items, or something else
\* (a plain sequence).
MappingInput(m) == [isMapping |-> TRUE, items |-> m]

NonMappingInput == [isMapping |-> FALSE, items |-> <<>>]

UniqInputs ==
    {NonMappingInput} \cup {MappingInput(m) : m \in Mappings(FieldNames, {Str("1")})}

\* mappings that hold the discriminator key or not, beside another item
TagInputs(key) ==
    {NonMappingInput} \cup
    {MappingInput(m) : m \in Mappings({key}, TagValues)} \cup
    {MappingInput(m @@ ("p" :> Str("1"))) : m \in Mappings({key}, TagValues)}

-----------------------------------------------------------------------------
(* The attrs classes: identity, __name__, field names, and the fields      *)
(* whose default is not NOTHING.                                           *)

Shapes == {sh \in [attrs : SUBSET FieldNames, defaults : SUBSET FieldNames] :
             sh.defaults \subseteq sh.attrs}

RequiredShapes == {sh \in Shapes : sh.defaults = {}}

MkClasses(shapes, names) ==
    [j \in 1..Len(shapes) |->
        [id |-> j, name |-> names[j],
         attrs |-> shapes[j].attrs, defaults |-> shapes[j].defaults]]

ClassOf(id) == classes[id]

\* Exceptions: every failure is a ValueError told apart by its message
\* (IndexError for classes[0] of an empty tuple).
NoError == [msg |-> "", cl |-> None]

InsufficientCandidates == "At least two classes required."

MultipleEmptySchemas == "At least two classes have no attributes."

NoUniqueField == "has no usable unique attributes."

NoUniqueRequiredField == "has no usable non-default attributes."

NotAMapping == "Only input mappings are supported"

MissingDiscriminator == "Cannot disambiguate union type if key is not in the mapping"

UnhashableType == "TypeError: unhashable type"

TupleIndexError == "IndexError: tuple index out of range"

Raise(m, cl) == [msg |-> m, cl |-> cl]

-----------------------------------------------------------------------------
(* create_uniq_field_dis_func, lines 19-50                                 *)

\* line 21-23: [(cl, set(at.name for at in fields(cl))) for cl in classes]
ClsAndAttrs(cls) == [j \in 1..Len(cls) |-> [cl |-> cls[j].id, attrs |-> cls[j].attrs]]

\* mutation: counts the classes with at most one attribute
NoAttrsAtMostOne(c_a) == {j \in 1..Len(c_a) : Cardinality(c_a[j].attrs) <= 1}

\* line 24: the classes without attributes
NoAttrs(c_a) == {j \in 1..Len(c_a) : Cardinality(c_a[j].attrs) = 0}

\* mutation: the list is left in input order
SortByLenUnsorted(c_a) == c_a

\* line 29: list.sort(key=lambda c_a: -len(c_a[1])) is stable: descending
\* number of attributes, ties in the order of the list.
RECURSIVE SortFrom(_, _)
SortFrom(c_a, n) ==
    IF n < 0 THEN <<>>
    ELSE SelectSeq(c_a, LAMBDA e : Cardinality(e.attrs) = n) \o SortFrom(c_a, n - 1)

SortByLen(c_a) == SortFrom(c_a, Cardinality(FieldNames))

\* mutation: the slice starts one item too far
OtherClassesSkipNext(c_a, n) == SubSeq(c_a, n + 2, Len(c_a))

\* line 34: cls_and_attrs[i + 1 :]
OtherClasses(c_a, n) == SubSeq(c_a, n + 1, Len(c_a))

\* line 36: reduce(or_, (c_a[1] for c_a in other_classes))
OtherReqs(others) == UNION {others[j].attrs : j \in 1..Len(others)}

\* mutation: the attributes of the other classes are not subtracted
UniqNoSubtraction(cl_reqs, other_reqs) == cl_reqs

\* line 37: uniq = cl_reqs - other_reqs
Uniq(cl_reqs, other_reqs) == cl_reqs \ other_reqs

\* mutation: the test is inverted (is not NOTHING)
DefaultIsSet(cl, attr_name) == attr_name \in classes[cl].defaults

\* line 44: getattr(cl_fields, attr_name).default is NOTHING
DefaultIsNothing(cl, attr_name) == attr_name \notin ClassOf(cl).defaults

\* mutation: any unique attribute is taken, with a default or not
UsableAny(cl, uniq) == uniq

\* lines 43-45: the loop over the set uniq breaks at the first attribute
\* without default; a set has no defined iteration order, so any such
\* attribute of uniq can be the one the loop stops at.
Usable(cl, uniq) == {a \in uniq : DefaultIsNothing(cl, a)}

\* line 48: uniq_attrs_dict[attr_name] = cl on an OrderedDict: a new key is
\* appended, an existing key keeps its place and takes the new value.
DictSet(d, k, v) ==
    IF \E j \in 1..Len(d) : d[j].k = k
    THEN [j \in 1..Len(d) |-> IF d[j].k = k THEN [k |-> k, v |-> v] ELSE d[j]]
    ELSE Append(d, [k |-> k, v |-> v])

\* lines 19-31: the argument checks, the list of attribute sets and its sort
CreateUniqStart ==
    /\ pc = "start"
    /\ kind = "uniq"
    /\ IF Len(classes) < 2
       THEN /\ pc' = "raised"
            /\ error' = Raise(InsufficientCandidates, None)
            /\ UNCHANGED cls_and_attrs
       ELSE IF Cardinality(NoAttrs(ClsAndAttrs(classes))) > 1
       THEN /\ pc' = "raised"
            /\ error' = Raise(MultipleEmptySchemas, None)
            /\ cls_and_attrs' = ClsAndAttrs(classes)
       ELSE /\ pc' = "loop"
            /\ error' = error
            /\ cls_and_attrs' = SortByLen(ClsAndAttrs(classes))
    /\ i' = 1
    /\ UNCHANGED << kind, classes, type_name_key, uniq_attrs_dict, names_to_cl,
                    fallback, calls >>

\* lines 33-50: one iteration of the loop over the sorted list
LoopStep ==
    /\ pc = "loop"
    /\ i <= Len(cls_and_attrs)
    /\ LET cl == cls_and_attrs[i].cl
           cl_reqs == cls_and_attrs[i].attrs
           other_classes == OtherClasses(cls_and_attrs, i)
           uniq == Uniq(cl_reqs, OtherReqs(other_classes))
           last == i = Len(cls_and_attrs)
       IN IF other_classes # <<>>
          THEN IF uniq = {}
               THEN /\ pc' = "raised"
                    /\ error' = Raise(NoUniqueField, cl)
                    /\ UNCHANGED << i, uniq_attrs_dict, fallback >>
               ELSE IF Usable(cl, uniq) = {}
               THEN /\ pc' = "raised"
                    /\ error' = Raise(NoUniqueRequiredField, cl)
                    /\ UNCHANGED << i, uniq_attrs_dict, fallback >>
               ELSE /\ \E attr_name \in Usable(cl, uniq) :
                          uniq_attrs_dict' = DictSet(uniq_attrs_dict, attr_name, cl)
                    /\ i' = i + 1
                    /\ pc' = IF last THEN "built" ELSE "loop"
                    /\ UNCHANGED << error, fallback >>
          ELSE /\ fallback' = cl
               /\ i' = i + 1
               /\ pc' = IF last THEN "built" ELSE "loop"
               /\ UNCHANGED << error, uniq_attrs_dict >>
    /\ UNCHANGED << kind, classes, type_name_key, cls_and_attrs, names_to_cl, calls >>

-----------------------------------------------------------------------------
(* create_type_name_field_dis_func, lines 72-73                            *)

\* line 72: {c.__name__: c for c in classes}: a later class of the same
\* name replaces an earlier one.
NamesToCl(cls) ==
    [n \in {cls[j].name : j \in 1..Len(cls)} |->
        LET js == {j \in 1..Len(cls) : cls[j].name = n}
        IN cls[CHOOSE j \in js : \A j2 \in js : j2 <= j].id]

CreateTypeName ==
    /\ pc = "start"
    /\ kind = "type_name"
    /\ names_to_cl' = NamesToCl(classes)
    /\ IF Len(classes) = 0
       THEN /\ pc' = "raised"
            /\ error' = Raise(TupleIndexError, None)
            /\ UNCHANGED fallback
       ELSE /\ pc' = "built"
            /\ fallback' = classes[1].id
            /\ UNCHANGED error
    /\ UNCHANGED << kind, classes, type_name_key, cls_and_attrs, i,
                    uniq_attrs_dict, calls >>

-----------------------------------------------------------------------------
(* dis_func, lines 52-58 and 75-89                                         *)

Idle == [pc |-> "idle", data |-> NonMappingInput, it |-> 0, cl |-> None, err |-> ""]

Returned(c, cl) == [pc |-> "done", data |-> c.data, it |-> c.it, cl |-> cl, err |-> ""]

Raised(c, msg) == [pc |-> "done", data |-> c.data, it |-> c.it, cl |-> None, err |-> msg]

Inputs == IF kind = "uniq" THEN UniqInputs ELSE TagInputs(type_name_key)

\* a caller enters dis_func(data) of the resolver the builder returned
Call(t) ==
    /\ pc = "built"
    /\ calls[t].pc \in {"idle", "done"}
    /\ \E data \in Inputs :
         calls' = [calls EXCEPT ![t] =
                     [pc |-> "isinstance", data |-> data, it |-> 0,
                      cl |-> None, err |-> ""]]
    /\ UNCHANGED << kind, classes, type_name_key, pc, cls_and_attrs, i,
                    uniq_attrs_dict, names_to_cl, fallback, error >>

\* lines 53-54, 76-77: if not isinstance(data, Mapping): raise ValueError
IsInstance(c) ==
    IF ~ c.data.isMapping
    THEN Raised(c, NotAMapping)
    ELSE [c EXCEPT !.pc = IF kind = "uniq" THEN "scan" ELSE "lookup", !.it = 1]

CheckMapping(t) ==
    /\ calls[t].pc = "isinstance"
    /\ calls' = [calls EXCEPT ![t] = IsInstance(calls[t])]
    /\ UNCHANGED << kind, classes, type_name_key, pc, cls_and_attrs, i,
                    uniq_attrs_dict, names_to_cl, fallback, error >>

\* mutation: the last item of the table is never tested
ScanItemOffByOne(c, d, fb) ==
    IF c.it >= Len(d)
    THEN Returned(c, fb)
    ELSE IF d[c.it].k \in DOMAIN c.data.items
    THEN Returned(c, d[c.it].v)
    ELSE [c EXCEPT !.it = c.it + 1]

\* mutation: the callers share one iterator over the table, so a call
\* resumes where the most advanced call in flight stands
ScanItemSharedIterator(c, d, fb) ==
    LET its == {calls[t].it : t \in {u \in DOMAIN calls : calls[u].pc = "scan"}}
        pos == CHOOSE m \in its : \A m2 \in its : m2 <= m
    IN IF pos > Len(d)
       THEN Returned(c, fb)
       ELSE IF d[pos].k \in DOMAIN c.data.items
       THEN Returned(c, d[pos].v)
       ELSE [c EXCEPT !.it = pos + 1]

\* lines 55-58: one step of  for k, v in uniq_attrs_dict.items()
ScanItem(c, d, fb) ==
    IF c.it > Len(d)
    THEN Returned(c, fb)
    ELSE IF d[c.it].k \in DOMAIN c.data.items
    THEN Returned(c, d[c.it].v)
    ELSE [c EXCEPT !.it = c.it + 1]

Scan(t) ==
    /\ calls[t].pc = "scan"
    /\ calls' = [calls EXCEPT ![t] = ScanItem(calls[t], uniq_attrs_dict, fallback)]
    /\ UNCHANGED << kind, classes, type_name_key, pc, cls_and_attrs, i,
                    uniq_attrs_dict, names_to_cl, fallback, error >>

\* lines 79-89: the key test, the read of the type name and the dict lookup;
\* "type_name not in names_to_cl" hashes type_name.
LookupName(c, key, names, fb) ==
    IF key \notin DOMAIN c.data.items
    THEN Raised(c, MissingDiscriminator)
    ELSE LET type_name == c.data.items[key]
         IN IF ~ Hashable(type_name)
            THEN Raised(c, UnhashableType)
            ELSE IF type_name.v \notin DOMAIN names
            THEN Returned(c, fb)
            ELSE Returned(c, names[type_name.v])

Lookup(t) ==
    /\ calls[t].pc = "lookup"
    /\ calls' = [calls EXCEPT ![t] =
                   LookupName(calls[t], type_name_key, names_to_cl, fallback)]
    /\ UNCHANGED << kind, classes, type_name_key, pc, cls_and_attrs, i,
                    uniq_attrs_dict, names_to_cl, fallback, error >>

-----------------------------------------------------------------------------
(* Specifications                                                          *)

InitBuilder ==
    /\ pc = "start"
    /\ cls_and_attrs = <<>>
    /\ i = 0
    /\ uniq_attrs_dict = <<>>
    /\ names_to_cl = <<>>
    /\ fallback = None
    /\ error = NoError

InitGroup(shapeSet, maxN) ==
    \/ /\ kind = "uniq"
       /\ type_name_key = "type"
       /\ \E n \in 1..maxN : \E shapes \in [1..n -> shapeSet] :
             classes = MkClasses(shapes, ClassNames)
    \/ /\ kind = "type_name"
       /\ type_name_key \in TypeNameKeys
       /\ \E n \in 0..maxN : \E names \in [1..n -> TagNames] :
             classes = MkClasses([j \in 1..n |-> [attrs |-> {}, defaults |-> {}]], names)

\* one caller at a time, every group of classes
Init ==
    /\ InitGroup(Shapes, MaxClasses)
    /\ InitBuilder
    /\ calls = [t \in {"t1"} |-> Idle]

\* several callers on one resolver, classes without defaults
InitConc ==
    /\ InitGroup(RequiredShapes, MaxClasses)
    /\ InitBuilder
    /\ calls = [t \in Callers |-> Idle]

Next ==
    \/ CreateUniqStart
    \/ LoopStep
    \/ CreateTypeName
    \/ \E t \in DOMAIN calls : Call(t)
    \/ \E t \in DOMAIN calls : CheckMapping(t)
    \/ \E t \in DOMAIN calls : Scan(t)
    \/ \E t \in DOMAIN calls : Lookup(t)

Spec == Init /\ [][Next]_vars

SpecConc == InitConc /\ [][Next]_vars

-----------------------------------------------------------------------------
(* Vocabulary of the properties, stated on the group as it was given.      *)

Ids == 1..Len(classes)

Attrs(s) == classes[s].attrs

\* the fields of s that carry no default
Required(s) == classes[s].attrs \ classes[s].defaults

\* descending-size order, ties in input order
Precedes(a, b) ==
    \/ Cardinality(Attrs(a)) > Cardinality(Attrs(b))
    \/ Cardinality(Attrs(a)) = Cardinality(Attrs(b)) /\ a < b

After(s) == {b \in Ids : Precedes(s, b)}

AttrsAfter(s) == UNION {Attrs(b) : b \in After(s)}

IsLast(s) == After(s) = {}

Empties == {s \in Ids : Attrs(s) = {}}

\* the walk cannot give s a table key
HasNoKey(s) == ~ IsLast(s) /\ (Required(s) \ AttrsAfter(s)) = {}

UniqGroup == kind = "uniq" /\ Len(classes) >= 2

Done(t) == calls[t].pc = "done"

DoneMapping(t) == Done(t) /\ calls[t].data.isMapping

Keys(t) == DOMAIN calls[t].data.items

-----------------------------------------------------------------------------
(* C1, as stated: for every group of 2 or more schemas whose sets of       *)
(* no-default fields are pairwise disjoint the structural build succeeds   *)
(* and a mapping with exactly the fields of S resolves to S.               *)
C1_Original ==
    (UniqGroup /\ \A a, b \in Ids : a # b => Required(a) \cap Required(b) = {})
    => /\ pc # "raised"
       /\ \A t \in DOMAIN calls : \A s \in Ids :
             (DoneMapping(t) /\ Keys(t) = Attrs(s)) => calls[t].cl = s

C1_Pre ==
    /\ UniqGroup
    /\ \A a, b \in Ids : a # b => Attrs(a) \cap Attrs(b) = {}
    /\ \A a \in Ids : Required(a) # {}

(* C1, amended: for every group of 2 or more schemas whose field-name sets *)
(* are pairwise disjoint and each of which has a no-default field, the     *)
(* structural build succeeds and a mapping with exactly the fields of S    *)
(* resolves to S.                                                          *)
C1_Amended ==
    C1_Pre
    => /\ pc # "raised"
       /\ \A t \in DOMAIN calls : \A s \in Ids :
             (DoneMapping(t) /\ Keys(t) = Attrs(s)) => calls[t].cl = s

C1_Witness ==
    /\ C1_Pre
    /\ pc = "built"
    /\ \E t \in DOMAIN calls : \E s \in Ids :
          /\ DoneMapping(t) /\ Keys(t) = Attrs(s) /\ calls[t].cl = s
          /\ classes[s].defaults # {}

-----------------------------------------------------------------------------
(* C2: on a built structural resolver, a mapping whose keys lie between    *)
(* the no-default fields of S and all fields of S resolves to S; so with   *)
(* Parent{p}, Child{p,c}, keys {p,c} give Child and keys {p} give Parent,  *)
(* in either input order.                                                  *)
C2_Conforming ==
    kind = "uniq"
    => \A t \in DOMAIN calls : \A s \in Ids :
          (DoneMapping(t) /\ Required(s) \subseteq Keys(t) /\ Keys(t) \subseteq Attrs(s))
          => (calls[t].cl = s /\ calls[t].err = "")

C2_Witness ==
    /\ kind = "uniq"
    /\ Len(classes) = 2
    /\ classes[2].attrs = {"p"} /\ classes[1].attrs = {"p", "c"}
    /\ classes[1].defaults = {} /\ classes[2].defaults = {}
    /\ \E t \in DOMAIN calls : DoneMapping(t) /\ Keys(t) = {"p"} /\ calls[t].cl = 2

-----------------------------------------------------------------------------
(* C3: the tag-field resolver is this function of its input: a non-mapping *)
(* fails with NotAMapping; a mapping without the discriminator key fails   *)
(* with MissingDiscriminator; a value equal to the display name of some ci *)
(* returns that ci; a value matching no display name returns the first     *)
(* schema and is not an error.                                             *)
NameMatches(t, s) ==
    LET type_name == calls[t].data.items[type_name_key]
    IN type_name.t = "str" /\ type_name.v = classes[s].name

\* C3: the four cases of the tag-field resolver, on every finished call.
C3_TagFunction ==
    kind = "type_name"
    => \A t \in DOMAIN calls :
          Done(t) =>
             IF ~ calls[t].data.isMapping
             THEN calls[t].err = NotAMapping
             ELSE IF type_name_key \notin Keys(t)
             THEN calls[t].err = MissingDiscriminator
             ELSE IF \E s \in Ids : NameMatches(t, s)
             THEN /\ calls[t].err = ""
                  /\ \A s \in Ids : NameMatches(t, s) => calls[t].cl = s
             ELSE calls[t].err = "" /\ calls[t].cl = classes[1].id

-----------------------------------------------------------------------------
(* C4: the structural resolver is this function of its input: a            *)
(* non-mapping fails with NotAMapping; otherwise the result is the schema  *)
(* of the first table entry whose field name is a key of the mapping, the  *)
(* fallback when there is none; among the schemas whose table key the      *)
(* mapping holds, that is the one with the most fields, earliest in input  *)
(* order among equals.                                                     *)
Hits(t) == {j \in 1..Len(uniq_attrs_dict) : uniq_attrs_dict[j].k \in Keys(t)}

FirstHit(t) == CHOOSE j \in Hits(t) : \A j2 \in Hits(t) : j <= j2

Signalled(t) == {uniq_attrs_dict[j].v : j \in Hits(t)}

\* C4: NotAMapping for a non-mapping; else the schema of the first item
\* whose key the mapping holds, which precedes every other signalled schema
\* in descending field count and input order; else the fallback.
C4_StructuralFunction ==
    kind = "uniq"
    => \A t \in DOMAIN calls :
          Done(t) =>
             IF ~ calls[t].data.isMapping
             THEN calls[t].err = NotAMapping /\ calls[t].cl = None
             ELSE /\ calls[t].err = ""
                  /\ Hits(t) = {} => calls[t].cl = fallback
                  /\ Hits(t) # {} =>
                        /\ calls[t].cl = uniq_attrs_dict[FirstHit(t)].v
                        /\ \A s \in Signalled(t) \ {calls[t].cl} :
                              Precedes(calls[t].cl, s)

C4_Witness ==
    /\ kind = "uniq"
    /\ \E t \in DOMAIN calls :
          /\ DoneMapping(t)
          /\ Cardinality(Signalled(t)) >= 2
          /\ \E s \in Signalled(t) \ {calls[t].cl} :
                Cardinality(Attrs(s)) = Cardinality(Attrs(calls[t].cl))

-----------------------------------------------------------------------------
(* C5, as stated: a group of 2 or more schemas with a schema whose single  *)
(* field that appears in no other candidate carries a default fails to     *)
(* build with NoUniqueRequiredField, wherever that schema stands.          *)
OnlyUniqueHasDefault(s) ==
    LET u == Attrs(s) \ UNION {Attrs(b) : b \in Ids \ {s}}
    IN Cardinality(u) = 1 /\ u \subseteq classes[s].defaults

\* C5, as stated: such a group never builds and fails with
\* NoUniqueRequiredField.
C5_Original ==
    (UniqGroup /\ \E s \in Ids : OnlyUniqueHasDefault(s))
    => /\ pc # "built"
       /\ pc = "raised" => error.msg = NoUniqueRequiredField

\* s is not last, has fields that no schema after it has, all with defaults
OnlyDefaultsUnique(s) ==
    /\ ~ IsLast(s)
    /\ Attrs(s) \ AttrsAfter(s) # {}
    /\ Attrs(s) \ AttrsAfter(s) \subseteq classes[s].defaults

(* C5, amended: a build never succeeds on a group with a schema S that is  *)
(* not last in descending-size order and whose fields that appear in no    *)
(* schema after it in that order are non-empty and all carry defaults; the *)
(* failure is NoUniqueRequiredField naming S when at most one schema is    *)
(* empty and every schema before S in that order has a no-default field    *)
(* that no schema after it has.                                            *)
C5_Amended ==
    (UniqGroup /\ pc \in {"built", "raised"})
    => \A s \in Ids :
          OnlyDefaultsUnique(s)
          => /\ pc # "built"
             /\ ( /\ pc = "raised"
                  /\ Cardinality(Empties) <= 1
                  /\ \A b \in Ids : Precedes(b, s) => ~ HasNoKey(b) )
                => error = Raise(NoUniqueRequiredField, s)

C5_Witness ==
    /\ UniqGroup
    /\ pc = "raised"
    /\ \E s \in Ids :
          /\ OnlyDefaultsUnique(s)
          /\ error = Raise(NoUniqueRequiredField, s)
          /\ \E b \in Ids : Precedes(b, s)

-----------------------------------------------------------------------------
(* C6, as stated: no resolver is built for a group in which a schema that  *)
(* is not last in descending-size order has all its field names in the     *)
(* schemas after it; when it is the first schema of that order the walk    *)
(* fails on, the failure is NoUniqueField naming it; two candidates with   *)
(* the same non-empty field-name set fail to build with NoUniqueField.     *)
AllFieldsAfter(s) == ~ IsLast(s) /\ Attrs(s) \subseteq AttrsAfter(s)

FirstOffending(s) == \A b \in Ids : Precedes(b, s) => ~ HasNoKey(b)

SameFieldsPair ==
    Len(classes) = 2 /\ Attrs(1) = Attrs(2) /\ Attrs(1) # {}

\* C6, as stated: such a group never builds, and the first schema the walk
\* fails on is named by NoUniqueField.
C6_Original ==
    UniqGroup
    => /\ \A s \in Ids :
             AllFieldsAfter(s)
             => /\ pc # "built"
                /\ (pc = "raised" /\ FirstOffending(s))
                   => error = Raise(NoUniqueField, s)
       /\ (SameFieldsPair /\ pc = "raised") => error.msg = NoUniqueField

(* C6, amended: the same, the named failure being claimed for groups with  *)
(* at most one empty-field schema (two or more fail earlier, with          *)
(* MultipleEmptySchemas).                                                  *)
C6_Amended ==
    (UniqGroup /\ pc \in {"built", "raised"})
    => /\ \A s \in Ids :
             AllFieldsAfter(s)
             => /\ pc # "built"
                /\ (pc = "raised" /\ FirstOffending(s) /\ Cardinality(Empties) <= 1)
                   => error = Raise(NoUniqueField, s)
       /\ (SameFieldsPair /\ pc = "raised") => error.msg = NoUniqueField

C6_Witness ==
    /\ UniqGroup
    /\ Len(classes) = 3
    /\ pc = "raised"
    /\ \E s \in Ids :
          /\ AllFieldsAfter(s) /\ FirstOffending(s)
          /\ \E b \in Ids : Precedes(b, s)
          /\ error = Raise(NoUniqueField, s)

-----------------------------------------------------------------------------
(* C7: a group of 2 or more schemas with more than one empty field set     *)
(* fails to build with MultipleEmptySchemas, before any unique-field       *)
(* error; a group with exactly one is not rejected for that reason and     *)
(* the empty schema becomes the fallback of the built resolver.            *)
C7_EmptySchemas ==
    (UniqGroup /\ pc # "start")
    => /\ Cardinality(Empties) > 1
          => (pc = "raised" /\ error = Raise(MultipleEmptySchemas, None))
       /\ Cardinality(Empties) = 1
          => /\ error.msg # MultipleEmptySchemas
             /\ pc = "built" => fallback \in Empties

C7_Witness ==
    /\ UniqGroup
    /\ pc = "raised"
    /\ Cardinality(Empties) = 2
    /\ \E s \in Ids : HasNoKey(s) /\ Attrs(s) # {}
    /\ error.msg = MultipleEmptySchemas

-----------------------------------------------------------------------------
(* C8: a resolve call, whether it returns or raises, leaves the table and  *)
(* the fallback of the resolver unchanged; in any interleaving of calls    *)
(* from several callers each call ends as the same call made alone, and    *)
(* calls with the same input end alike.                                    *)

\* the call made alone: dis_func run from entry to exit on the built tables
RECURSIVE AloneScan(_, _)
AloneScan(data, j) ==
    IF j > Len(uniq_attrs_dict) THEN [cl |-> fallback, err |-> ""]
    ELSE IF uniq_attrs_dict[j].k \in DOMAIN data.items
    THEN [cl |-> uniq_attrs_dict[j].v, err |-> ""]
    ELSE AloneScan(data, j + 1)

AloneLookup(data) ==
    IF type_name_key \notin DOMAIN data.items
    THEN [cl |-> None, err |-> MissingDiscriminator]
    ELSE IF data.items[type_name_key].t = "list"
    THEN [cl |-> None, err |-> UnhashableType]
    ELSE IF data.items[type_name_key].v \in DOMAIN names_to_cl
    THEN [cl |-> names_to_cl[data.items[type_name_key].v], err |-> ""]
    ELSE [cl |-> fallback, err |-> ""]

Alone(data) ==
    IF ~ data.isMapping THEN [cl |-> None, err |-> NotAMapping]
    ELSE IF kind = "uniq" THEN AloneScan(data, 1)
    ELSE AloneLookup(data)

Outcome(t) == [cl |-> calls[t].cl, err |-> calls[t].err]

CallsAsAlone ==
    /\ \A t \in DOMAIN calls : Done(t) => Outcome(t) = Alone(calls[t].data)
    /\ \A t, u \in DOMAIN calls :
          (Done(t) /\ Done(u) /\ calls[t].data = calls[u].data)
          => Outcome(t) = Outcome(u)

ResolverUnchanged ==
    pc = "built"
    => /\ uniq_attrs_dict' = uniq_attrs_dict
       /\ names_to_cl' = names_to_cl
       /\ fallback' = fallback
       /\ type_name_key' = type_name_key
       /\ pc' = "built"

\* C8: no step taken once the resolver is built changes its tables, and
\* every finished call of every caller ends as the same call made alone.
C8_ReadOnlyResolve == [] CallsAsAlone /\ [][ResolverUnchanged]_vars

\* two callers inside the scan of one table at once, one of them returned
\* an identity while the other is still scanning
C8_Witness ==
    /\ kind = "uniq"
    /\ Cardinality(DOMAIN calls) >= 2
    /\ \E t, u \in DOMAIN calls :
          /\ DoneMapping(t) /\ calls[t].cl # None /\ calls[t].it = 2
          /\ calls[u].pc = "scan" /\ calls[u].it = 1
          /\ calls[u].data # calls[t].data

-----------------------------------------------------------------------------
(* C9: after a successful structural build over N schemas the table holds  *)
(* N-1 entries with pairwise distinct keys and pairwise distinct schemas,  *)
(* each key a no-default field of its schema that no schema after it in    *)
(* descending-size order has; the remaining schema, last in that order, is *)
(* the fallback; a mapping never resolves to "no match".                   *)
C9_Roles ==
    (kind = "uniq" /\ pc = "built")
    => LET d == uniq_attrs_dict
           n == Len(classes)
       IN /\ n >= 2
          /\ Len(d) = n - 1
          /\ \A j, j2 \in 1..Len(d) : j # j2 => (d[j].k # d[j2].k /\ d[j].v # d[j2].v)
          /\ \A j \in 1..Len(d) :
                /\ d[j].v \in Ids
                /\ d[j].k \in Required(d[j].v)
                /\ d[j].k \notin AttrsAfter(d[j].v)
          /\ fallback \in Ids
          /\ IsLast(fallback)
          /\ \A j \in 1..Len(d) : d[j].v # fallback
          /\ \A t \in DOMAIN calls : DoneMapping(t) => calls[t].cl \in Ids

C9_Witness ==
    /\ kind = "uniq" /\ pc = "built"
    /\ Len(classes) = 3
    /\ Len(uniq_attrs_dict) = 2
    /\ Cardinality(Attrs(fallback)) = 1
    /\ \E t \in DOMAIN calls : DoneMapping(t) /\ Keys(t) = {} /\ calls[t].cl = fallback

-----------------------------------------------------------------------------
(* C10: any two resolvers built from the same ordered sequence of schemas  *)
(* return the same identity for every input mapping, whichever unique      *)
(* no-default field the builder picked as a schema's table key.            *)

\* the tables the build of this group can end with: one usable unique
\* attribute per schema that is not last
KeyChoices(j) ==
    Usable(cls_and_attrs[j].cl,
           Uniq(cls_and_attrs[j].attrs, OtherReqs(OtherClasses(cls_and_attrs, j))))

OtherBuilds ==
    LET n == Len(cls_and_attrs) - 1
    IN {[j \in 1..n |-> [k |-> f[j], v |-> cls_and_attrs[j].cl]] :
          f \in {g \in [1..n -> FieldNames] : \A j \in 1..n : g[j] \in KeyChoices(j)}}

RECURSIVE ScanOf(_, _, _)
ScanOf(d, keys, j) ==
    IF j > Len(d) THEN fallback
    ELSE IF d[j].k \in keys THEN d[j].v
    ELSE ScanOf(d, keys, j + 1)

\* C10: a finished call returns what every other table the build of the
\* same sequence can produce returns for the same mapping.
C10_SameRouting ==
    (kind = "uniq" /\ pc = "built")
    => \A t \in DOMAIN calls :
          DoneMapping(t) => \A d \in OtherBuilds : calls[t].cl = ScanOf(d, Keys(t), 1)

====
